---------------------------- MODULE Spec2Model ----------------------------
(***************************************************************************)
(* A model of BigNumbers.js: the BigNum decimal type                       *)
(*     value = sign * coefficient * 10^exponent                            *)
(* with its constructor, parser, arithmetic, comparison and formatting.    *)
(*                                                                         *)
(* Objects live in a heap (a sequence of records); a reference is an index *)
(* into it.  heap[1] is the static BigNum.ZERO.  Every method is an        *)
(* operator from a heap and references to a call result                    *)
(*     [heap |-> the heap after the call, ref |-> the returned object,     *)
(*      err |-> the message of the Error thrown, or NoError]               *)
(* so that a method that wrote to one of its operands would show in the    *)
(* heap.  Strings are sequences of one-character strings.                  *)
(***************************************************************************)
EXTENDS Integers, Sequences, FiniteSets

VARIABLES heap, last

vars == <<heap, last>>

-----------------------------------------------------------------------------
(* Bounds of the model *)

\* objects the caller keeps at most (BigNum.ZERO included)
MaxHeap == 3
\* raw exponents given to the constructor range over -MaxExp..MaxExp
MaxExp == 1
\* precisions given to div and pow range over 1..MaxPrecision
MaxPrecision == 2
\* integer powers given to pow range over -1..MaxPow
MaxPow == 4
\* digit counts given to toString (1..MaxDigits) and toFixed (0..MaxDigits)
MaxDigits == 3

\* powers of ten up to 10^MaxShift scale a coefficient in a call
MaxShift == 8

\* precision = 40, the default of div and pow
DefaultPrecision == 40

\* the largest integer the model checker represents; BigInt itself is unbounded
MaxInt == (2^30 - 1) + 2^30

-----------------------------------------------------------------------------
(* Integer helpers: BigInt and Number arithmetic as JavaScript defines it *)

Abs(n) == IF n < 0 THEN -n ELSE n

Min(a, b) == IF a < b THEN a ELSE b

Max(a, b) == IF a > b THEN a ELSE b

\* BigInt(10) ** BigInt(k)
RECURSIVE Pow10(_)
Pow10(k) == IF k <= 0 THEN 1 ELSE 10 * Pow10(k - 1)

\* BigInt a % b: the remainder takes the sign of the dividend
BigRem(a, b) == IF a >= 0 THEN a % b ELSE -((-a) % b)

\* BigInt a / b: the quotient truncates toward zero
BigQuot(a, b) == IF a >= 0 THEN a \div b ELSE -((-a) \div b)

\* ToInt32, the conversion done by `x | 0`, `x & 1` and `x >> 1`: x modulo 2^32
\* taken in -2^31 .. 2^31 - 1, computed on the two 16-bit halves of x
ToInt32(x) ==
  LET lo == x % (2^16)
      hi == x \div (2^16)
  IN (((hi + 2^15) % (2^16)) - 2^15) * (2^16) + lo

-----------------------------------------------------------------------------
(* Call results *)

NoError == <<>>

Ok(h, r) == [heap |-> h, ref |-> r, err |-> NoError]

Throw(h, msg) == [heap |-> h, ref |-> 0, err |-> msg]

-----------------------------------------------------------------------------
(* Constructor and normalization *)

\* the while loop of _normalize on a nonzero coefficient
RECURSIVE StripZeros(_)
StripZeros(d) ==
  IF BigRem(d.coefficient, 10) = 0
  THEN StripZeros([d EXCEPT !.coefficient = BigQuot(d.coefficient, 10),
                            !.exponent = d.exponent + 1])
  ELSE d

_normalizeNoStrip(h, this) ==
  IF h[this].coefficient = 0
  THEN [h EXCEPT ![this].exponent = 0, ![this].sign = 1]
  ELSE IF h[this].coefficient < 0
       THEN [h EXCEPT ![this].coefficient = -h[this].coefficient, ![this].sign = -1]
       ELSE h

_normalizeFlip(h, this) ==
  IF h[this].coefficient = 0
  THEN [h EXCEPT ![this].exponent = 0, ![this].sign = 1]
  ELSE LET d == StripZeros(h[this])
       IN IF d.coefficient < 0
          THEN [h EXCEPT ![this] = [d EXCEPT !.coefficient = -d.coefficient,
                                             !.sign = -d.sign]]
          ELSE [h EXCEPT ![this] = d]

\* this._normalize(): writes the fields of the object `this`
_normalize(h, this) ==
  IF h[this].coefficient = 0
  THEN [h EXCEPT ![this].exponent = 0, ![this].sign = 1]
  ELSE LET d == StripZeros(h[this])
       IN IF d.coefficient < 0
          THEN [h EXCEPT ![this] = [d EXCEPT !.coefficient = -d.coefficient,
                                             !.sign = -1]]
          ELSE [h EXCEPT ![this] = d]

\* new BigNum(coefficient, exponent, sign): allocates one object
BigNum(h, coefficient, exponent, sign) ==
  LET this == [coefficient |-> coefficient,
               exponent |-> ToInt32(exponent),
               sign |-> IF coefficient = 0 THEN 1
                        ELSE IF sign = -1 THEN -1 ELSE 1]
      h1 == Append(h, this)
  IN Ok(_normalize(h1, Len(h1)), Len(h1))

\* static ZERO = new BigNum(0n, 0, 1): the first object of every heap
ZERO == 1

InitialHeap == BigNum(<<>>, 0, 0, 1).heap

-----------------------------------------------------------------------------
(* Alignment, addition, subtraction, multiplication *)

\* BigNum._align(a, b): <<aCoeff, bCoeff, exponent>>
_align(a, b) ==
  IF a.coefficient = 0 THEN <<0, b.coefficient * b.sign, b.exponent>>
  ELSE IF b.coefficient = 0 THEN <<a.coefficient * a.sign, 0, a.exponent>>
  ELSE IF a.exponent = b.exponent
  THEN <<a.coefficient * a.sign, b.coefficient * b.sign, a.exponent>>
  ELSE IF a.exponent > b.exponent
  THEN LET diff == a.exponent - b.exponent
           scaledB == b.coefficient * Pow10(diff)
       IN <<a.coefficient * a.sign, scaledB * b.sign, b.exponent + diff>>
  ELSE LET diff == b.exponent - a.exponent
           scaledA == a.coefficient * Pow10(diff)
       IN <<scaledA * a.sign, b.coefficient * b.sign, a.exponent + diff>>

\* this.add(other); BigNum.from(other) is `other` itself for a BigNum
add(h, this, other) ==
  IF h[this].coefficient = 0
  THEN BigNum(h, h[other].coefficient, h[other].exponent, h[other].sign)
  ELSE IF h[other].coefficient = 0
  THEN BigNum(h, h[this].coefficient, h[this].exponent, h[this].sign)
  ELSE LET al == _align(h[this], h[other])
           sum == al[1] + al[2]
           sign == IF sum < 0 THEN -1 ELSE 1
       IN IF sum = 0 THEN Ok(h, ZERO)
          ELSE BigNum(h, IF sign = -1 THEN -sum ELSE sum, al[3], sign)

subInPlace(h, this, other) ==
  add([h EXCEPT ![other].sign = -h[other].sign], this, other)

\* this.sub(other)
sub(h, this, other) ==
  LET neg == BigNum(h, h[other].coefficient, h[other].exponent, -h[other].sign)
  IN add(neg.heap, this, neg.ref)

\* this.mul(other)
mul(h, this, other) ==
  IF h[this].coefficient = 0 \/ h[other].coefficient = 0 THEN Ok(h, ZERO)
  ELSE BigNum(h, h[this].coefficient * h[other].coefficient,
              h[this].exponent + h[other].exponent,
              h[this].sign * h[other].sign)

-----------------------------------------------------------------------------
(* Strings *)

\* A string is the sequence of its UTF-16 code units, as the code's methods
\* (length, indexOf, slice, trim, the regular expression) see it.

\* the code units of the characters the code writes in its literals
CodeTable ==
  << <<" ", 32>>, <<"+", 43>>, <<"-", 45>>, <<".", 46>>, <<"0123456789", 48>>, <<":", 58>>,
     <<"ABCDEFGHIJKLMNOPQRSTUVWXYZ", 65>>, <<"abcdefghijklmnopqrstuvwxyz", 97>> >>

\* the code unit of the character ch
CodeOf(ch) ==
  LET at == CHOOSE p \in {<<r, k>> : r \in 1..Len(CodeTable), k \in 1..26} :
              /\ p[2] <= Len(CodeTable[p[1]][1])
              /\ SubSeq(CodeTable[p[1]][1], p[2], p[2]) = ch
  IN CodeTable[at[1]][2] + at[2] - 1

\* the string of a literal of the code
Chars(str) == [i \in 1..Len(str) |-> CodeOf(SubSeq(str, i, i))]

\* the code units of "+", "-", ".", "0", "9", "e" and "E"
Plus == 43

Minus == 45

Point == 46

Digit0 == 48

Digit9 == 57

LowerE == 101

UpperE == 69

\* \d of the regular expression
IsDigit(ch) == ch \in Digit0..Digit9

DigitVal(ch) == ch - Digit0

\* n.toString() of a BigInt, and of a Number that holds an integer
RECURSIVE IntToString(_)
IntToString(n) ==
  IF n < 0 THEN <<Minus>> \o IntToString(-n)
  ELSE IF n < 10 THEN <<Digit0 + n>>
  ELSE IntToString(n \div 10) \o <<Digit0 + (n % 10)>>

\* BigInt(s) of a string of decimal digits; BigInt("") is 0n
RECURSIVE DigitsToInt(_)
DigitsToInt(s) ==
  IF s = <<>> THEN 0
  ELSE DigitsToInt(SubSeq(s, 1, Len(s) - 1)) * 10 + DigitVal(s[Len(s)])

\* parseInt(s, 10) of a string matched by [+-]?\d+
ParseInt(s) ==
  IF s[1] = Minus THEN -DigitsToInt(Tail(s))
  ELSE IF s[1] = Plus THEN DigitsToInt(Tail(s))
  ELSE DigitsToInt(s)

\* s.slice(from, to) for 0 <= from
Slice(s, from, to) == SubSeq(s, from + 1, Min(to, Len(s)))

\* "0".repeat(k)
Zeros(k) == [i \in 1..k |-> Digit0]

\* s.indexOf(ch) + 1: the 1-based position of the first ch in s, 0 when absent
IndexOf(s, chars) ==
  IF \E i \in 1..Len(s) : s[i] \in chars
  THEN CHOOSE i \in 1..Len(s) : s[i] \in chars /\ \A j \in 1..(i - 1) : s[j] \notin chars
  ELSE 0

\* the code units String.prototype.trim strips: the white space (tab, vertical
\* tab, form feed, space, no-break space, U+FEFF and the space separators U+1680,
\* U+2000 to U+200A, U+202F, U+205F, U+3000) and the line terminators (line feed,
\* carriage return, U+2028, U+2029)
WhiteSpace ==
  {9, 10, 11, 12, 13, 32, 160, 5760} \cup (8192..8202)
    \cup {8232, 8233, 8239, 8287, 12288, 65279}

\* s.trim()
RECURSIVE Trim(_)
Trim(s) ==
  IF s = <<>> THEN s
  ELSE IF s[1] \in WhiteSpace THEN Trim(Tail(s))
  ELSE IF s[Len(s)] \in WhiteSpace THEN Trim(SubSeq(s, 1, Len(s) - 1))
  ELSE s

\* s.match(/^([+-])?((?:\d+)(?:\.\d*)?|\.\d+)(?:[eE]([+-]?\d+))?$/):
\* ok, and the groups m[1] (sign), m[2] (num), m[3] (exponent, <<>> when absent)
Match(s) ==
  LET hasSign == s[1] \in {Plus, Minus}
      body == IF hasSign THEN Tail(s) ELSE s
      ePos == IndexOf(body, {LowerE, UpperE})
      num == IF ePos = 0 THEN body ELSE SubSeq(body, 1, ePos - 1)
      expo == IF ePos = 0 THEN <<>> ELSE SubSeq(body, ePos + 1, Len(body))
      expDigits == IF expo # <<>> /\ expo[1] \in {Plus, Minus} THEN Tail(expo) ELSE expo
      numOk == /\ \A i \in 1..Len(num) : IsDigit(num[i]) \/ num[i] = Point
               /\ Cardinality({i \in 1..Len(num) : num[i] = Point}) <= 1
               /\ \E i \in 1..Len(num) : IsDigit(num[i])
      expOk == ePos = 0 \/ (expDigits # <<>> /\ \A i \in 1..Len(expDigits) : IsDigit(expDigits[i]))
  IN [ok |-> numOk /\ expOk,
      sign |-> IF hasSign THEN <<s[1]>> ELSE <<>>,
      num |-> num,
      exp |-> expo]

-----------------------------------------------------------------------------
(* Parsing: BigNum.from *)

\* the messages of the Errors the code throws
EmptyString == Chars("Cannot parse empty string")

InvalidNumericString == Chars("Invalid numeric string: ")

NonFiniteNumber == Chars("Cannot construct BigNum from non-finite number")

UnsupportedType == Chars("Unsupported type for BigNum.from: ")

DivisionByZero == Chars("Division by zero")

\* the string branch of BigNum.from
fromString(h, x) ==
  LET s == Trim(x)
      m == Match(s)
      sign == IF m.sign = <<Minus>> THEN -1 ELSE 1
      expPart == IF m.exp # <<>> THEN ParseInt(m.exp) ELSE 0
      idx == IndexOf(m.num, {Point})
  IN IF s = <<>> THEN Throw(h, EmptyString)
     ELSE IF ~m.ok THEN Throw(h, InvalidNumericString \o s)
     ELSE IF idx > 0
     THEN LET digitsAfter == Len(m.num) - idx
              num == SubSeq(m.num, 1, idx - 1) \o SubSeq(m.num, idx + 1, Len(m.num))
          IN BigNum(h, DigitsToInt(num), expPart - digitsAfter, sign)
     ELSE BigNum(h, DigitsToInt(m.num), expPart, sign)

\* the values BigNum.from is given: a BigNum, a BigInt, a Number holding an
\* integer or a non-finite value, a string, and anything else, of which the code
\* reads typeof alone ("undefined", "boolean", "object" for null, ...). A Number
\* with a fraction is not among them.
ArgBigNum(r) == [type |-> "BigNum", ref |-> r]

ArgBigInt(n) == [type |-> "bigint", value |-> n]

ArgNumber(n) == [type |-> "number", finite |-> TRUE, value |-> n]

ArgNonFinite == [type |-> "number", finite |-> FALSE]

ArgString(s) == [type |-> "string", value |-> s]

ArgOther(typeof) == [type |-> typeof]

\* BigNum.from(x)
from(h, x) ==
  IF x.type = "BigNum" THEN Ok(h, x.ref)
  ELSE IF x.type = "bigint"
  THEN BigNum(h, x.value, 0, IF x.value < 0 THEN -1 ELSE 1)
  ELSE IF x.type = "number"
  THEN IF ~x.finite THEN Throw(h, NonFiniteNumber)
       ELSE fromString(h, IntToString(x.value))
  ELSE IF x.type = "string" THEN fromString(h, x.value)
  ELSE Throw(h, UnsupportedType \o Chars(x.type))

-----------------------------------------------------------------------------
(* Division and power *)

divZeroFirst(h, this, other, precision) ==
  IF h[this].coefficient = 0 THEN Ok(h, ZERO)
  ELSE IF h[other].coefficient = 0 THEN Throw(h, DivisionByZero)
  ELSE BigNum(h, BigQuot(h[this].coefficient * Pow10(precision + 5), h[other].coefficient),
              h[this].exponent - h[other].exponent - (precision + 5),
              h[this].sign * h[other].sign)

\* this.div(other, precision)
div(h, this, other, precision) ==
  IF h[other].coefficient = 0 THEN Throw(h, DivisionByZero)
  ELSE IF h[this].coefficient = 0 THEN Ok(h, ZERO)
  ELSE LET scale == precision + 5
           scalePow == Pow10(scale)
           numerator == h[this].coefficient * scalePow
           quotient == BigQuot(numerator, h[other].coefficient)
           exponent == h[this].exponent - h[other].exponent - scale
           sign == h[this].sign * h[other].sign
           totalDigits == Len(IntToString(quotient))
       IN IF totalDigits > precision
          THEN LET drop == totalDigits - precision
                   divisor == Pow10(drop)
                   remainder == BigRem(quotient, divisor)
                   q == BigQuot(quotient, divisor)
               IN BigNum(h, IF remainder * 2 >= divisor THEN q + 1 ELSE q,
                         exponent + drop, sign)
          ELSE BigNum(h, quotient, exponent, sign)

RECURSIVE powLoopNoSquare(_, _, _, _)
powLoopNoSquare(h, res, base, exp) ==
  IF exp > 0
  THEN LET r1 == IF ToInt32(exp) % 2 = 1 THEN mul(h, res, base) ELSE Ok(h, res)
       IN powLoopNoSquare(r1.heap, r1.ref, base, ToInt32(exp) \div 2)
  ELSE Ok(h, res)

\* the while loop of pow: exp & 1, exp >>= 1 on 32-bit integers
RECURSIVE powLoop(_, _, _, _)
powLoop(h, res, base, exp) ==
  IF exp > 0
  THEN LET r1 == IF ToInt32(exp) % 2 = 1 THEN mul(h, res, base) ELSE Ok(h, res)
           r2 == mul(r1.heap, base, base)
       IN powLoop(r2.heap, r1.ref, r2.ref, ToInt32(exp) \div 2)
  ELSE Ok(h, res)

\* the branch n > 0 of pow
powPositive(h, this, n) ==
  LET res == BigNum(h, 1, 0, 1)
      base == BigNum(res.heap, h[this].coefficient, h[this].exponent, h[this].sign)
  IN powLoop(base.heap, res.ref, base.ref, n)

\* this.pow(n, precision), n an integer
pow(h, this, n, precision) ==
  IF n = 0 THEN BigNum(h, 1, 0, 1)
  ELSE IF n > 0 THEN powPositive(h, this, n)
  ELSE LET positive == powPositive(h, this, -n)
           one == from(positive.heap, ArgNumber(1))
       IN div(one.heap, one.ref, positive.ref, precision)

-----------------------------------------------------------------------------
(* Comparison *)

\* a.cmp(b)
cmp(a, b) ==
  IF a.coefficient = 0 /\ b.coefficient = 0 THEN 0
  ELSE IF a.sign # b.sign THEN (IF a.sign > b.sign THEN 1 ELSE -1)
  ELSE LET al == _align(a, b)
       IN IF al[1] = al[2] THEN 0
          ELSE LET c == IF al[1] > al[2] THEN 1 ELSE -1
               IN IF a.sign = 1 THEN c ELSE -c

eq(a, b) == cmp(a, b) = 0

lt(a, b) == cmp(a, b) < 0

lte(a, b) == cmp(a, b) <= 0

gt(a, b) == cmp(a, b) > 0

gte(a, b) == cmp(a, b) >= 0

-----------------------------------------------------------------------------
(* Formatting *)

\* d[0] + (d.length > 1 ? "." + d.slice(1) : "")
Mantissa(d) == <<d[1]>> \o (IF Len(d) > 1 THEN <<Point>> \o Tail(d) ELSE <<>>)

\* (sign < 0 ? "-" : "") + mantissa + "e" + (exponent >= 0 ? "+" : "") + exponent
Scientific(sign, mantissa, exponent) ==
  (IF sign < 0 THEN <<Minus>> ELSE <<>>) \o mantissa \o <<LowerE>>
    \o (IF exponent >= 0 THEN <<Plus>> ELSE <<>>) \o IntToString(exponent)

toStringTruncate(x, significant) ==
  IF x.coefficient = 0 THEN <<Digit0>>
  ELSE LET coeffStr == IntToString(x.coefficient)
           exponent == x.exponent + (Len(coeffStr) - 1)
       IN Scientific(x.sign, Mantissa(Slice(coeffStr, 0, significant)), exponent)

\* x.toString(significant)
toString(x, significant) ==
  IF x.coefficient = 0 THEN <<Digit0>>
  ELSE LET coeffStr == IntToString(x.coefficient)
           totalDigits == Len(coeffStr)
           exponent == x.exponent + (totalDigits - 1)
       IN IF totalDigits <= significant
          THEN Scientific(x.sign, Mantissa(coeffStr), exponent)
          ELSE LET keep == significant
                   left == Slice(coeffStr, 0, keep)
                   rest == Slice(coeffStr, keep, Len(coeffStr))
                   rounded == IF DigitVal(rest[1]) >= 5
                              THEN DigitsToInt(left) + 1
                              ELSE DigitsToInt(left)
                   roundedStr == IntToString(rounded)
               IN IF Len(roundedStr) > keep
                  THEN Scientific(x.sign, Mantissa(roundedStr), exponent + 1)
                  ELSE Scientific(x.sign, Mantissa(roundedStr), exponent)

\* x.toFixed(decimals)
toFixed(x, decimals) ==
  IF x.coefficient = 0 THEN <<Digit0, Point>> \o Zeros(decimals)
  ELSE LET coeffStr == IntToString(x.coefficient)
           shift == x.exponent
           minus == IF x.sign < 0 THEN <<Minus>> ELSE <<>>
       IN IF shift >= 0
          THEN minus \o coeffStr \o Zeros(shift) \o <<Point>> \o Zeros(decimals)
          ELSE LET absShift == -shift
               IN IF absShift < Len(coeffStr)
                  THEN LET idx == Len(coeffStr) - absShift
                           intPart == Slice(coeffStr, 0, idx)
                           fracPart == Slice(coeffStr, idx, Len(coeffStr))
                                         \o Zeros(Max(0, decimals - (Len(coeffStr) - idx)))
                       IN minus \o intPart \o <<Point>> \o Slice(fracPart, 0, decimals)
                  ELSE LET zeros == Zeros(absShift - Len(coeffStr))
                           fracPart == zeros \o coeffStr
                                         \o Zeros(Max(0, decimals - (Len(zeros) + Len(coeffStr))))
                       IN minus \o <<Digit0, Point>> \o Slice(fracPart, 0, decimals)

-----------------------------------------------------------------------------
(* The caller: the values it passes and the objects it holds *)

\* raw triples given to `new BigNum(coefficient, exponent, sign)`
RawCoefficients == {-50, 0, 5}

RawExponents == {-MaxExp, MaxExp}

RawSigns == {1, -1}

\* strings given to BigNum.from
Strings ==
  { <<32, 9, 8195>> \o Chars("-.95E+1") \o <<10, 12288>>,
    Chars("1e"),
    <<160, 8232>> }

\* the other values given to BigNum.from
FromArgs ==
  {ArgBigInt(-20), ArgNumber(7), ArgNonFinite, ArgOther("undefined"), ArgOther("object")}
    \cup {ArgString(s) : s \in Strings}

Refs == 1..Len(heap)

Idle == [op |-> "idle", args |-> <<>>, held |-> 0, out |-> 0, err |-> NoError, val |-> <<>>]

\* the objects the caller sees after a call that returned r on the heap h: those
\* it held before, and the returned object; the temporaries of the call are garbage
Retain(h, r) ==
  LET kept == SubSeq(r.heap, 1, Len(h))
  IN IF r.err = NoError /\ r.ref > Len(h) THEN Append(kept, r.heap[r.ref]) ELSE kept

\* the reference the caller gets to the returned object, 0 after a throw
Returned(h, r) ==
  IF r.err # NoError THEN 0 ELSE IF r.ref > Len(h) THEN Len(h) + 1 ELSE r.ref

\* a call that returns an object or throws
Called(op, args, r) ==
  /\ heap' = Retain(heap, r)
  /\ last' = [op |-> op, args |-> args, held |-> Len(heap), out |-> Returned(heap, r),
              err |-> r.err, val |-> <<>>]

\* a call that returns a number or a string
Read(op, args, v) ==
  /\ heap' = heap
  /\ last' = [op |-> op, args |-> args, held |-> Len(heap), out |-> 0,
              err |-> NoError, val |-> v]

\* the Decimal one
One == [coefficient |-> 1, exponent |-> 0, sign |-> 1]

\* the model checker's integers hold the BigInts of the call
FitsShift(a, b) ==
  LET diff == Abs(a.exponent - b.exponent)
  IN IF a.coefficient = 0 \/ b.coefficient = 0 THEN TRUE
     ELSE IF diff <= MaxShift
     THEN Max(a.coefficient, b.coefficient) <= (MaxInt \div 4) \div Pow10(diff)
     ELSE FALSE

FitsProduct(a, b) ==
  IF a.coefficient = 0 THEN TRUE ELSE b.coefficient <= MaxInt \div a.coefficient

FitsQuotient(a, b, precision) ==
  IF a.coefficient = 0 \/ b.coefficient = 0 THEN TRUE
  ELSE IF precision + 5 <= MaxShift
  THEN a.coefficient <= (MaxInt \div 4) \div Pow10(precision + 5)
  ELSE FALSE

RECURSIVE FitsSquarings(_, _)
FitsSquarings(c, exp) ==
  IF exp = 0 \/ c = 0 THEN TRUE
  ELSE IF c <= MaxInt \div c THEN FitsSquarings(c * c, exp \div 2)
  ELSE FALSE

-----------------------------------------------------------------------------
(* Actions: one per call of the public interface *)

Construct(c, e, s) ==
  /\ last = Idle
  /\ Called("new", <<c, e, s>>, BigNum(heap, c, e, s))

From(x) ==
  /\ last = Idle
  /\ Called("from", <<x>>, from(heap, x))

Add(i, j) ==
  /\ last = Idle
  /\ FitsShift(heap[i], heap[j])
  /\ Called("add", <<i, j>>, add(heap, i, j))

Sub(i, j) ==
  /\ last = Idle
  /\ FitsShift(heap[i], heap[j])
  /\ Called("sub", <<i, j>>, sub(heap, i, j))

Mul(i, j) ==
  /\ last = Idle
  /\ FitsProduct(heap[i], heap[j])
  /\ Called("mul", <<i, j>>, mul(heap, i, j))

Div(i, j, p) ==
  /\ last = Idle
  /\ FitsQuotient(heap[i], heap[j], p)
  /\ Called("div", <<i, j, p>>, div(heap, i, j, p))

Pow(i, n, p) ==
  /\ last = Idle
  /\ FitsSquarings(heap[i].coefficient, Abs(n))
  /\ (n < 0 => FitsQuotient(One, One, p))
  /\ Called("pow", <<i, n, p>>, pow(heap, i, n, p))

Cmp(i, j) ==
  /\ last = Idle
  /\ FitsShift(heap[i], heap[j])
  /\ Read("cmp", <<i, j>>, cmp(heap[i], heap[j]))

ToString(i, significant) ==
  /\ last = Idle
  /\ Read("toString", <<i, significant>>, toString(heap[i], significant))

ToFixed(i, decimals) ==
  /\ last = Idle
  /\ Read("toFixed", <<i, decimals>>, toFixed(heap[i], decimals))

\* the caller keeps its reference to the returned object
Keep ==
  /\ last # Idle
  /\ Len(heap) <= MaxHeap
  /\ heap' = heap
  /\ last' = Idle

\* the caller drops its reference to the returned object
Drop ==
  /\ last # Idle
  /\ heap' = SubSeq(heap, 1, last.held)
  /\ last' = Idle

Call ==
  \/ \E c \in RawCoefficients, e \in RawExponents, s \in RawSigns : Construct(c, e, s)
  \/ \E x \in FromArgs \cup {ArgBigNum(r) : r \in Refs} : From(x)
  \/ \E i, j \in Refs : Add(i, j)
  \/ \E i, j \in Refs : Sub(i, j)
  \/ \E i, j \in Refs : Mul(i, j)
  \/ \E i, j \in Refs, p \in 1..MaxPrecision : Div(i, j, p)
  \/ \E i \in Refs, n \in (-1)..MaxPow :
       \E p \in (IF n < 0 THEN 1..MaxPrecision ELSE {DefaultPrecision}) : Pow(i, n, p)
  \/ \E i, j \in Refs : Cmp(i, j)
  \/ \E i \in Refs, significant \in 1..MaxDigits : ToString(i, significant)
  \/ \E i \in Refs, decimals \in 0..MaxDigits : ToFixed(i, decimals)

-----------------------------------------------------------------------------
(* Spec: any sequence of calls, from the state after the class is loaded *)

Init ==
  /\ heap = InitialHeap
  /\ last = Idle

Next == Call \/ Keep \/ Drop

Spec == Init /\ [][Next]_vars

-----------------------------------------------------------------------------
(* SpecCall: single calls on operands drawn from bounded sets *)

OperandCoefficients == {1, 25, 95, 3333333}

\* 0, and the operands of the usage example: from("1.23e400"), from("4.56e399")
OperandTriples ==
  (OperandCoefficients \X ((-MaxExp)..MaxExp) \X {1, -1})
    \cup {<<0, 0, 1>>, <<123, 398, 1>>, <<456, 397, 1>>}

\* the heap after loading and new BigNum(a), new BigNum(b)
HeapOf(a, b) ==
  LET h1 == BigNum(InitialHeap, a[1], a[2], a[3]).heap
  IN BigNum(h1, b[1], b[2], b[3]).heap

InitCall ==
  /\ \E a, b \in OperandTriples : heap = HeapOf(a, b)
  /\ last = Idle

NextCall == Call \/ Drop

SpecCall == InitCall /\ [][NextCall]_vars

-----------------------------------------------------------------------------
(* What the claims are stated with: the exact value of a triple, computed   *)
(* with integers alone                                                      *)

\* the canonical triple of the integer n times 10^e
RECURSIVE Canonical(_, _)
Canonical(n, e) ==
  IF n = 0 THEN [coefficient |-> 0, exponent |-> 0, sign |-> 1]
  ELSE IF n % 10 = 0 THEN Canonical(n \div 10, e + 1)
  ELSE [coefficient |-> Abs(n), exponent |-> e, sign |-> IF n < 0 THEN -1 ELSE 1]

IsCanonical(x) ==
  /\ x.sign \in {1, -1}
  /\ x.coefficient >= 0
  /\ \/ x.coefficient = 0 /\ x.exponent = 0 /\ x.sign = 1
     \/ x.coefficient > 0 /\ x.coefficient % 10 # 0

\* the integer value(x) / 10^m, for m at most the exponent of a nonzero x
SignedAt(x, m) ==
  IF x.coefficient = 0 THEN 0 ELSE x.sign * x.coefficient * Pow10(x.exponent - m)

LowExponent(a, b) ==
  IF a.coefficient = 0 THEN b.exponent
  ELSE IF b.coefficient = 0 THEN a.exponent
  ELSE Min(a.exponent, b.exponent)

\* the canonical triple of value(a) + value(b)
ExactSum(a, b) ==
  LET m == LowExponent(a, b)
  IN Canonical(SignedAt(a, m) + SignedAt(b, m), m)

\* -1, 0 or 1 as value(a) is less than, equal to or greater than value(b)
ExactCmp(a, b) ==
  LET m == LowExponent(a, b)
      d == SignedAt(a, m) - SignedAt(b, m)
  IN IF d < 0 THEN -1 ELSE IF d = 0 THEN 0 ELSE 1

\* the number of decimal digits of n > 0
RECURSIVE NumDigits(_)
NumDigits(n) == IF n < 10 THEN 1 ELSE 1 + NumDigits(n \div 10)

\* x with its coefficient rounded half-up to s significant digits
RoundedTo(x, s) ==
  LET drop == NumDigits(x.coefficient) - s
      q == x.coefficient \div Pow10(drop)
      rem == x.coefficient % Pow10(drop)
  IN IF drop <= 0 THEN x
     ELSE Canonical(x.sign * (IF 2 * rem >= Pow10(drop) THEN q + 1 ELSE q),
                    x.exponent + drop)

\* the objects of a call, and the values of calls made on values
This == heap[last.args[1]]

Other == heap[last.args[2]]

Result == heap[last.out]

Returns(op) == last.op = op /\ last.err = NoError

AddVal(a, b) ==
  LET r == add(InitialHeap \o <<a, b>>, 2, 3)
  IN r.heap[r.ref]

MulVal(a, b) ==
  LET r == mul(InitialHeap \o <<a, b>>, 2, 3)
  IN r.heap[r.ref]

\* a multiplied by itself with mul: n factors
RECURSIVE RepeatedMul(_, _)
RepeatedMul(a, n) == IF n = 1 THEN a ELSE MulVal(RepeatedMul(a, n - 1), a)

\* | value(q) * value(b) - value(a) | <= | value(a) | * 10^(1 - p), for nonzero a
WithinPrecision(q, a, b, p) ==
  LET x == q.coefficient * b.coefficient
      e == q.exponent + b.exponent - a.exponent
      sameSign == q.sign * b.sign = a.sign
  IN IF x = 0 THEN p <= 0
     ELSE IF ~sameSign THEN FALSE
     ELSE IF e >= 0
     THEN IF e <= MaxShift /\ x <= MaxInt \div Pow10(e)
          THEN Abs(x * Pow10(e) - a.coefficient) <= a.coefficient \div Pow10(p - 1)
          ELSE FALSE
     ELSE Abs(x - a.coefficient * Pow10(-e)) <= (a.coefficient * Pow10(-e)) \div Pow10(p - 1)

-----------------------------------------------------------------------------
(* The claims *)

\* C1: addition is exact: a.add(b) is the canonical Decimal whose value is
\* value(a) + value(b), also when the exponents of a and b differ
C1_AddIsExact == Returns("add") => Result = ExactSum(This, Other)

\* C2: a.cmp(b) is -1, 0 or 1 as value(a) is less than, equal to or greater than
\* value(b), and eq, lt, lte, gt, gte agree with it
C2_CmpIsTotalOrder ==
  Returns("cmp") =>
    /\ last.val = ExactCmp(This, Other)
    /\ eq(This, Other) = (ExactCmp(This, Other) = 0)
    /\ lt(This, Other) = (ExactCmp(This, Other) < 0)
    /\ lte(This, Other) = (ExactCmp(This, Other) <= 0)
    /\ gt(This, Other) = (ExactCmp(This, Other) > 0)
    /\ gte(This, Other) = (ExactCmp(This, Other) >= 0)

\* C3: every Decimal made by the constructor, from, or a sequence of add, sub, mul,
\* div and pow calls is canonical: sign +1 or -1, coefficient >= 0, and either
\* (coefficient 0, exponent 0, sign +1) or a coefficient > 0 that 10 does not divide
C3_CanonicalForm == \A i \in DOMAIN heap : IsCanonical(heap[i])

\* a product whose raw coefficient ends in 0 has been made and normalized
C3_Witness ==
  /\ Returns("mul")
  /\ This.coefficient * Other.coefficient > 0
  /\ (This.coefficient * Other.coefficient) % 10 = 0
  /\ last.out > last.held

\* C4: for nonzero a and b and precision p >= 1, a.div(b, p) is not zero and
\* a.div(b, p).mul(b) is a to within p significant digits
C4_DivWithinPrecision ==
  (Returns("div") /\ This.coefficient # 0 /\ Other.coefficient # 0) =>
    /\ Result.coefficient # 0
    /\ WithinPrecision(Result, This, Other, last.args[3])

\* C5: a.div(zero, p) throws "Division by zero" and returns no Decimal, for every a,
\* zero included: the check of the divisor comes before the shortcut for a zero
\* dividend
C5_DivByZeroThrows ==
  (last.op = "div" /\ Other.coefficient = 0) =>
    /\ last.err = Chars("Division by zero")
    /\ last.out = 0
    /\ Len(heap) = last.held

\* zero has been divided by zero
C5_Witness ==
  /\ last.op = "div"
  /\ This.coefficient = 0
  /\ Other.coefficient = 0
  /\ last.err = Chars("Division by zero")

\* C6: addition is associative: once a.add(b) has returned, (a.add(b)).add(c) and
\* a.add(b.add(c)) are the same triple, for every Decimal c the caller holds
C6_AddAssociative ==
  Returns("add") =>
    \A k \in 1..last.held :
      LET c == heap[k]
      IN (/\ FitsShift(Other, c)
          /\ FitsShift(Result, c)
          /\ FitsShift(This, AddVal(Other, c)))
           => AddVal(Result, c) = AddVal(This, AddVal(Other, c))

\* C7: a.pow(n) for n >= 1 is the triple got by multiplying a by itself with mul,
\* n factors, for a of either sign and zero; a.pow(0) is one
C7_PowIsRepeatedMul ==
  (Returns("pow") /\ last.args[2] >= 0) =>
    Result = IF last.args[2] = 0 THEN One ELSE RepeatedMul(This, last.args[2])

\* a negative Decimal has been raised to the power 3
C7_Witness ==
  /\ Returns("pow")
  /\ last.args[2] = 3
  /\ This.sign = -1
  /\ This.coefficient > 1
  /\ Result.sign = -1

\* C8: for nonzero x and s >= 1, from(x.toString(s)) is x with its coefficient
\* rounded half-up to s significant digits, and x itself when the coefficient has
\* at most s digits
C8_ToStringRoundTrip ==
  (Returns("toString") /\ This.coefficient # 0) =>
    LET r == fromString(InitialHeap, last.val)
    IN /\ r.err = NoError
       /\ r.heap[r.ref] = RoundedTo(This, last.args[2])
       /\ NumDigits(This.coefficient) <= last.args[2] => r.heap[r.ref] = This

\* a rounding carry: 9.5 at one significant digit reads "1.0" with the exponent raised
C8_Witness ==
  /\ Returns("toString")
  /\ This.coefficient = 95
  /\ last.args[2] = 1
  /\ This.sign = -1
  /\ SubSeq(last.val, 1, 5) = Chars("-1.0e")

\* C9: no call changes the fields of a Decimal that exists already: the objects the
\* caller holds, the shared ZERO among them, also when the call throws
C9_NeverMutated ==
  [][\A i \in DOMAIN heap \cap DOMAIN heap' : heap'[i] = heap[i]]_vars

\* add has returned the shared ZERO for two nonzero operands
C9_Witness ==
  /\ Returns("add")
  /\ last.out = ZERO
  /\ This.coefficient # 0
  /\ Other.coefficient # 0
  /\ Len(heap) = MaxHeap

\* C10 as stated: a negative coefficient is negated and the supplied sign flipped
C10_NegativeCoefficientFlipsSign ==
  (Returns("new") /\ last.args[1] < 0) =>
    /\ IsCanonical(Result)
    /\ Result.coefficient * Pow10(Result.exponent - last.args[2]) = -last.args[1]
    /\ Result.sign = -last.args[3]

\* C10 as amended: constructing (c, e, s) with c < 0 gives the canonical Decimal of
\* magnitude |c| * 10^e with sign -1, whatever the sign s supplied
C10_NegativeCoefficientIsNegative ==
  (Returns("new") /\ last.args[1] < 0) =>
    /\ IsCanonical(Result)
    /\ Result.coefficient * Pow10(Result.exponent - last.args[2]) = -last.args[1]
    /\ Result.sign = -1

\* a negative coefficient has been given together with the sign -1
C10_Witness ==
  /\ Returns("new")
  /\ last.args[1] < 0
  /\ last.args[3] = -1
  /\ Result.sign = -1
=============================================================================
